---- MODULE Spec2Model ----
(***************************************************************************)
(* chaos-exporter, cmd/exporter/main.go.                                   *)
(*                                                                         *)
(* Two activities share the Prometheus default registry: the exporter      *)
(* goroutine (the poll loop) and the promhttp handler serving a scrape.    *)
(* Every call into the registry or into a gauge is atomic (the library     *)
(* serialises them), so each call is one step of the model.                *)
(*                                                                         *)
(* Strings are sequences of one-character strings.  A GaugeVec is the      *)
(* sequence of its children's values: <<>> for a vector with no child yet  *)
(* and <<v>> once the child of the process's single label set has been     *)
(* Set to v.  The registry maps the fully-qualified name of a registered   *)
(* vector to that vector.                                                  *)
(*                                                                         *)
(* tmpExp is not a variable: until line 130/133 registers it, it is an     *)
(* unregistered vector with no child, and from then on it is the vector    *)
(* registered under ExpFQName(sanitizedExpName), so the Set of line        *)
(* 131/134 writes registry[ExpFQName(sanitizedExpName)].  A vector that    *)
(* line 129 unregistered is referenced by nothing in the exporter any      *)
(* more; only a scrape that took it earlier can still read it.             *)
(***************************************************************************)
EXTENDS Integers, Sequences, FiniteSets, TLC

VARIABLES
    pc,                       \* source line the exporter goroutine is about to run
    expTotal, passTotal, failTotal, expMap,   \* result of the current fetch
    todo,                     \* keys of expMap the range loop has not visited
    index,                    \* key of the current loop iteration
    registeredResultMetrics,  \* package-level list of sanitized names
    registry,                 \* default registry: fully-qualified name -> vector
    fatal,                    \* why the process stopped, "" while it runs
    spc,                      \* position of the scrape
    gathered,                 \* vectors the scrape took and has not collected yet
    families,                 \* what the scrape has collected: name -> children
    known,                    \* names in registeredResultMetrics when the scrape began
    polled,                   \* a poll has completed before the current fetch
    repeated,                 \* the current fetch returned what the previous one did
    lastExposed,              \* of a repeated fetch: what was exposed when it returned
    lastNames,                \* the names listed when the current fetch returned
    observed,                 \* sanitized names the range loop has computed so far
    other,                    \* registry and list of a second run fed the same results
    replayed,                 \* the second run has made the current poll too
    agreed                    \* both runs exposed the same when the current poll began

fetched == <<expTotal, passTotal, failTotal, expMap>>
twin == <<other, replayed, agreed>>
history == <<polled, repeated, lastExposed, lastNames, observed, twin>>
scrapeVars == <<spc, gathered, families, known>>

vars == <<pc, fetched, todo, index, registeredResultMetrics, registry, fatal,
          scrapeVars, history>>

(***************************************************************************)
(* Bounds of the model.                                                    *)
(***************************************************************************)
MaxMapSize == 2       \* entries of one verdict map
MaxCount == 1         \* largest aggregate count the source reports
MaxNameLen == 2       \* characters of a name, where names are enumerated

(***************************************************************************)
(* Data.                                                                   *)
(***************************************************************************)
\* Verdict codes are {not-executed:0, running:1, fail:2, pass:3}; the exporter
\* passes a code on unread, and the model draws from fail and pass.
Verdicts == { 2, 3 }

\* Experiment names the source may report: an empty name, a plain name, a
\* name with the separator the exporter rewrites, and a name that is already
\* in the rewritten form.
ExpNames == { <<>>, <<"p">>, <<"a", "-", "b">>, <<"a", "_", "b">> }

Range(f) == { f[x] : x \in DOMAIN f }

Letters == { "a", "b", "c", "d", "e", "f", "g", "h", "i", "j", "k", "l", "m",
             "n", "o", "p", "q", "r", "s", "t", "u", "v", "w", "x", "y", "z" }
Digits == { "0", "1", "2", "3", "4", "5", "6", "7", "8", "9" }

\* strings.Replace(index, "-", "_", -1)
Sanitize(s) == [ i \in 1..Len(s) |-> IF s[i] = "-" THEN "_" ELSE s[i] ]

\* contains(l, e)
contains(l, e) == \E i \in 1..Len(l) : l[i] = e

\* prometheus.BuildFQName, as GaugeOpts{Namespace, Subsystem, Name} names a vector
BuildFQName(namespace, subsystem, name) ==
    IF name = <<>> THEN <<>>
    ELSE namespace \o <<"_">> \o subsystem \o <<"_">> \o name

Namespace == <<"c">>
SubsystemExp == <<"e", "x", "p">>
SubsystemEngine == <<"e", "n", "g", "i", "n", "e">>

ExpFQName(name) == BuildFQName(Namespace, SubsystemExp, name)

\* The names of the three fixed vectors
experimentsTotal ==
    BuildFQName(Namespace, SubsystemEngine,
        <<"e","x","p","e","r","i","m","e","n","t","_","c","o","u","n","t">>)
passedExperiments ==
    BuildFQName(Namespace, SubsystemEngine,
        <<"p","a","s","s","e","d","_","e","x","p","e","r","i","m","e","n","t","s">>)
failedExperiments ==
    BuildFQName(Namespace, SubsystemEngine,
        <<"f","a","i","l","e","d","_","e","x","p","e","r","i","m","e","n","t","s">>)

FixedSeries == { experimentsTotal, passedExperiments, failedExperiments }

\* A descriptor the registry accepts: the name matches [a-zA-Z_:][a-zA-Z0-9_:]*
ValidMetricName(fq) ==
    /\ Len(fq) > 0
    /\ fq[1] \in Letters \cup {"_", ":"}
    /\ \A i \in 2..Len(fq) : fq[i] \in Letters \cup Digits \cup {"_", ":"}

(***************************************************************************)
(* The registry and the gauges, as the exporter uses them.                 *)
(***************************************************************************)
\* Why Register refuses a vector named fq, "" when it accepts it.  An
\* invalid descriptor is reported before a duplicate is looked for.
RegisterError(reg, fq) ==
    IF ~ValidMetricName(fq) THEN "invalid"
    ELSE IF fq \in DOMAIN reg THEN "duplicate"
    ELSE ""

\* Unregister that looks for the very object passed in: tmpExp is new, so
\* nothing is removed
UnregisterOpByObject(reg, fq) == reg

\* Unregister that clears every experiment vector along with the one named
UnregisterOpEveryExperiment(reg, fq) == [ k \in DOMAIN reg \cap FixedSeries |-> reg[k] ]

\* prometheus.Unregister(tmpExp): the vector registered under the identity of
\* tmpExp is removed, whichever object it is
UnregisterOp(reg, fq) == [ k \in DOMAIN reg \ {fq} |-> reg[k] ]

\* prometheus.MustRegister(tmpExp), when Register accepts it: tmpExp is a
\* new vector, it has no child
RegisterOp(reg, fq) == [ k \in DOMAIN reg \cup {fq} |-> IF k = fq THEN <<>> ELSE reg[k] ]

\* Set that writes v to every experiment vector registered, not to one
GaugeSetEveryExperiment(reg, fq, v) ==
    [ k \in DOMAIN reg |-> IF k = fq \/ k \notin FixedSeries THEN <<v>> ELSE reg[k] ]

\* vec.WithLabelValues(appUUID, chaosEngine, kubernetesVersion, openebsVersion).Set(v)
GaugeSet(reg, fq, v) == [ reg EXCEPT ![fq] = <<v>> ]

\* Names of the dynamic series registered in reg
DynamicSeries(reg) == DOMAIN reg \ FixedSeries

(***************************************************************************)
(* What chaosmetrics.GetLitmusChaosMetrics may return.                     *)
(***************************************************************************)
VerdictMaps ==
    UNION { [ D -> Verdicts ] :
            D \in { S \in SUBSET ExpNames : Cardinality(S) <= MaxMapSize } }

Counts == 0..MaxCount

\* passed and failed experiments are among the total
PollResults ==
    { r \in [ total : Counts, passed : Counts, failed : Counts, expMap : VerdictMaps ] :
        r.passed + r.failed <= r.total }

\* Until a second run is followed, it is the program at its start
TwinInit ==
    /\ other = [ registry |-> [ fq \in FixedSeries |-> <<>> ], list |-> <<>> ]
    /\ replayed = FALSE
    /\ agreed = TRUE

(***************************************************************************)
(* Initial state: main has registered the three fixed vectors (lines       *)
(* 192-194) and starts the exporter goroutine and the server.              *)
(***************************************************************************)
Init ==
    /\ pc = "L108"
    /\ expTotal = 0 /\ passTotal = 0 /\ failTotal = 0
    /\ expMap = <<>>
    /\ todo = {}
    /\ index = <<>>
    /\ registeredResultMetrics = <<>>
    /\ registry = [ fq \in FixedSeries |-> <<>> ]
    /\ fatal = ""
    /\ spc = "idle"
    /\ gathered = <<>>
    /\ families = <<>>
    /\ known = {}
    /\ polled = FALSE
    /\ repeated = FALSE
    /\ lastExposed = <<>>
    /\ lastNames = {}
    /\ observed = {}
    /\ TwinInit

(***************************************************************************)
(* The exporter goroutine.                                                 *)
(***************************************************************************)
sanitizedExpName == Sanitize(index)
verdict == expMap[index]

\* A vector a scrape holds is either still the one registered under its name
\* (live) or one that was unregistered since, with the children it had then.
Freeze(g, reg, fq) ==
    [ k \in DOMAIN g |->
        IF k = fq /\ g[k].live THEN [ live |-> FALSE, val |-> reg[k] ] ELSE g[k] ]

\* line 108, err == nil: the fetch returns a result
FetchOk(results) ==
    /\ pc = "L108"
    /\ \E r \in results :
         /\ repeated' = (polled /\ r.total = expTotal /\ r.passed = passTotal
                                /\ r.failed = failTotal /\ r.expMap = expMap)
         /\ expTotal' = r.total
         /\ passTotal' = r.passed
         /\ failTotal' = r.failed
         /\ expMap' = r.expMap
         /\ todo' = DOMAIN r.expMap
    /\ lastExposed' = IF repeated' THEN registry ELSE <<>>
    /\ lastNames' = Range(registeredResultMetrics)
    /\ pc' = "L115"
    /\ UNCHANGED <<index, registeredResultMetrics, registry, fatal, polled, scrapeVars,
                   observed, twin>>

\* lines 108-112 logging the error without ending the process: the loop goes
\* on with the empty result
FetchFailLogged ==
    /\ pc = "L108"
    /\ pc' = "L115"
    /\ fatal' = "fetch"
    /\ expTotal' = 0 /\ passTotal' = 0 /\ failTotal' = 0
    /\ expMap' = <<>>
    /\ todo' = {}
    /\ UNCHANGED <<index, registeredResultMetrics, registry, scrapeVars, history>>

\* lines 108-112, err != nil: log.Fatal ends the process
FetchFail ==
    /\ pc = "L108"
    /\ pc' = "exited"
    /\ fatal' = "fetch"
    /\ UNCHANGED <<fetched, todo, index, registeredResultMetrics, registry,
                   scrapeVars, history>>

\* line 128 testing membership of the name as the source gave it
RangeNextRawName ==
    /\ pc = "L115"
    /\ todo # {}
    /\ \E i \in todo :
         /\ index' = i
         /\ todo' = todo \ {i}
         /\ pc' = IF contains(registeredResultMetrics, i) THEN "L129" ELSE "L133"
         /\ observed' = observed \cup {Sanitize(i)}
    /\ UNCHANGED <<fetched, registeredResultMetrics, registry, fatal, scrapeVars,
                   polled, repeated, lastExposed, lastNames, twin>>

\* lines 115-128: the range loop takes an entry it has not visited (in no
\* particular order), builds the vector of the entry and tests membership
RangeNext ==
    /\ pc = "L115"
    /\ todo # {}
    /\ \E i \in todo :
         /\ index' = i
         /\ todo' = todo \ {i}
         /\ pc' = IF contains(registeredResultMetrics, Sanitize(i))
                  THEN "L129" ELSE "L133"
         /\ observed' = observed \cup {Sanitize(i)}
    /\ UNCHANGED <<fetched, registeredResultMetrics, registry, fatal, scrapeVars,
                   polled, repeated, lastExposed, lastNames, twin>>

\* line 115, no entry left: the loop ends
RangeDone ==
    /\ pc = "L115"
    /\ todo = {}
    /\ pc' = "L144"
    /\ UNCHANGED <<fetched, todo, index, registeredResultMetrics, registry, fatal,
                   scrapeVars, history>>

\* line 129
Unregister ==
    /\ pc = "L129"
    /\ registry' = UnregisterOp(registry, ExpFQName(sanitizedExpName))
    /\ gathered' = Freeze(gathered, registry, ExpFQName(sanitizedExpName))
    /\ pc' = "L130"
    /\ UNCHANGED <<fetched, todo, index, registeredResultMetrics, fatal, spc,
                   families, known, history>>

\* lines 130 and 133: MustRegister panics when Register returns an error
MustRegister(at, next) ==
    /\ pc = at
    /\ LET e == RegisterError(registry, ExpFQName(sanitizedExpName)) IN
         IF e = ""
         THEN /\ registry' = RegisterOp(registry, ExpFQName(sanitizedExpName))
              /\ pc' = next
              /\ fatal' = fatal
         ELSE /\ registry' = registry
              /\ pc' = "panicked"
              /\ fatal' = e
    /\ UNCHANGED <<fetched, todo, index, registeredResultMetrics, scrapeVars, history>>

\* line 130 left out: the vector is unregistered and not registered again
MustRegisterKnownSkipped ==
    /\ pc = "L130"
    /\ pc' = "L131"
    /\ UNCHANGED <<fetched, todo, index, registeredResultMetrics, registry, fatal,
                   scrapeVars, history>>

MustRegisterKnown == MustRegister("L130", "L131")
MustRegisterNew == MustRegister("L133", "L134")

\* lines 131 and 134
SetVerdict(at, next) ==
    /\ pc = at
    /\ registry' = GaugeSet(registry, ExpFQName(sanitizedExpName), verdict)
    /\ pc' = next
    /\ UNCHANGED <<fetched, todo, index, registeredResultMetrics, fatal, scrapeVars,
                   history>>

\* line 131 left out: the new vector is registered and never set
SetVerdictKnownSkipped ==
    /\ pc = "L131"
    /\ pc' = "L139"
    /\ UNCHANGED <<fetched, todo, index, registeredResultMetrics, registry, fatal,
                   scrapeVars, history>>

\* line 131 falling through to the append of line 135
SetVerdictKnownThenAppend == SetVerdict("L131", "L135")

\* line 134 writing the verdict to every experiment vector registered
SetVerdictNewEveryExperiment ==
    /\ pc = "L134"
    /\ registry' = GaugeSetEveryExperiment(registry, ExpFQName(sanitizedExpName), verdict)
    /\ pc' = "L135"
    /\ UNCHANGED <<fetched, todo, index, registeredResultMetrics, fatal, scrapeVars,
                   history>>

SetVerdictKnown == SetVerdict("L131", "L139")
SetVerdictNew == SetVerdict("L134", "L135")

\* line 135 assigning a one-name list instead of appending
AppendNameReplacing ==
    /\ pc = "L135"
    /\ registeredResultMetrics' = <<sanitizedExpName>>
    /\ pc' = "L139"
    /\ UNCHANGED <<fetched, todo, index, registry, fatal, scrapeVars, history>>

\* line 135 recording the name as the map spells it
AppendNameRaw ==
    /\ pc = "L135"
    /\ registeredResultMetrics' = Append(registeredResultMetrics, index)
    /\ pc' = "L139"
    /\ UNCHANGED <<fetched, todo, index, registry, fatal, scrapeVars, history>>

\* line 135
AppendName ==
    /\ pc = "L135"
    /\ registeredResultMetrics' = Append(registeredResultMetrics, sanitizedExpName)
    /\ pc' = "L139"
    /\ UNCHANGED <<fetched, todo, index, registry, fatal, scrapeVars, history>>

\* lines 139-141, one Set each, inside the range loop; after the last one
\* the iteration ends
SetFixed(at, fq, v, next) ==
    /\ pc = at
    /\ registry' = GaugeSet(registry, fq, v)
    /\ pc' = next
    /\ index' = IF next = "L115" THEN <<>> ELSE index
    /\ UNCHANGED <<fetched, todo, registeredResultMetrics, fatal, scrapeVars, history>>

\* line 139 with Add in place of Set
SetExperimentsTotalAdding ==
    SetFixed("L139", experimentsTotal,
             (IF registry[experimentsTotal] = <<>> THEN 0
              ELSE registry[experimentsTotal][1]) + expTotal, "L140")

SetExperimentsTotal == SetFixed("L139", experimentsTotal, expTotal, "L140")
SetPassedExperiments == SetFixed("L140", passedExperiments, passTotal, "L141")
SetFailedExperiments == SetFixed("L141", failedExperiments, failTotal, "L115")

\* line 144, then back to the top of the loop
Sleep ==
    /\ pc = "L144"
    /\ pc' = "L108"
    /\ polled' = TRUE
    /\ replayed' = FALSE
    /\ agreed' = (replayed => registry = other.registry)
    /\ UNCHANGED <<fetched, todo, index, registeredResultMetrics, registry, fatal,
                   scrapeVars, repeated, lastExposed, lastNames, observed, other>>

Reconcile ==
    \/ RangeNext
    \/ RangeDone
    \/ Unregister
    \/ MustRegisterKnown
    \/ MustRegisterNew
    \/ SetVerdictKnown
    \/ SetVerdictNew
    \/ AppendName
    \/ SetExperimentsTotal
    \/ SetPassedExperiments
    \/ SetFailedExperiments

Next ==
    \/ FetchOk(PollResults)
    \/ FetchFail
    \/ Reconcile
    \/ Sleep

Spec == Init /\ [][Next]_vars

(***************************************************************************)
(* A scrape: promhttp.Handler calls Gather on the default registry, which  *)
(* takes the registered vectors under the registry's lock and then         *)
(* collects each of them, in no particular order.                          *)
(***************************************************************************)
ScrapeBegin ==
    /\ fatal = ""
    /\ spc = "idle"
    /\ spc' = "collect"
    /\ gathered' = [ fq \in DOMAIN registry |-> [ live |-> TRUE, val |-> <<>> ] ]
    /\ families' = <<>>
    /\ known' = Range(registeredResultMetrics)
    /\ UNCHANGED <<pc, fetched, todo, index, registeredResultMetrics, registry, fatal,
                   history>>

\* Collect of one vector: its children as they are now
ScrapeCollect ==
    /\ fatal = ""
    /\ spc = "collect"
    /\ \E fq \in DOMAIN gathered :
         /\ families' = [ k \in DOMAIN families \cup {fq} |->
                            IF k # fq THEN families[k]
                            ELSE IF gathered[fq].live THEN registry[fq]
                            ELSE gathered[fq].val ]
         /\ gathered' = [ k \in DOMAIN gathered \ {fq} |-> gathered[k] ]
    /\ UNCHANGED <<pc, fetched, todo, index, registeredResultMetrics, registry, fatal,
                   spc, known, history>>

\* Every vector is collected: the response is written
ScrapeEnd ==
    /\ fatal = ""
    /\ spc = "collect"
    /\ DOMAIN gathered = {}
    /\ spc' = "idle"
    /\ families' = <<>>
    /\ known' = {}
    /\ UNCHANGED <<pc, fetched, todo, index, registeredResultMetrics, registry, fatal,
                   gathered, history>>

Scrape ==
    \/ ScrapeBegin
    \/ ScrapeCollect
    \/ ScrapeEnd

\* The poll loop and the handler side by side, on fetches of at most one
\* experiment, all of whose experiments passed
ScrapeResults ==
    { r \in PollResults :
        /\ DOMAIN r.expMap \in { {}, { <<"p">> }, { <<"a", "-", "b">> } }
        /\ r.total = MaxCount /\ r.passed = r.total /\ r.failed = 0 }

ScrapeNext ==
    \/ FetchOk(ScrapeResults)
    \/ FetchFail
    \/ Reconcile
    \/ Sleep
    \/ Scrape

ScrapeSpec == Init /\ [][ScrapeNext]_vars

(***************************************************************************)
(* Two runs of the exporter fed the same fetch results.  They are followed *)
(* one after the other: when the first has reconciled a fetch, the range   *)
(* loop is run over the same map again on the registry and the list of the *)
(* second, in whatever order it takes, and both sleep when it is done.     *)
(***************************************************************************)
\* The first run has reached line 144: the second run ranges over the map
SwitchRun ==
    /\ pc = "L144"
    /\ ~replayed
    /\ replayed' = TRUE
    /\ other' = [ registry |-> registry, list |-> registeredResultMetrics ]
    /\ registry' = other.registry
    /\ registeredResultMetrics' = other.list
    /\ todo' = DOMAIN expMap
    /\ pc' = "L115"
    /\ UNCHANGED <<fetched, index, fatal, scrapeVars, polled, repeated, lastExposed,
                   lastNames, observed, agreed>>

\* line 144 of both runs
SleepBoth == replayed /\ Sleep

\* Fetches whose counts are the same: the order of the map is what varies
OrderResults ==
    { r \in PollResults : r.total = MaxCount /\ r.passed = r.total /\ r.failed = 0 }

OrderNext ==
    \/ FetchOk(OrderResults)
    \/ FetchFail
    \/ Reconcile
    \/ SwitchRun
    \/ SleepBoth

OrderSpec == Init /\ [][OrderNext]_vars

(***************************************************************************)
(* One iteration of the range loop on every name over a small alphabet:    *)
(* a letter, a digit, the separator the exporter rewrites, the separator   *)
(* it rewrites to, and a separator it does not know.                       *)
(***************************************************************************)
Alphabet == { "a", "1", "-", "_", "." }

Names == UNION { [ 1..k -> Alphabet ] : k \in 0..MaxNameLen }

\* The loop is about to range over the one-entry map (n :> v) of a fetch
\* with no counts: of the first fetch (w = 0), or of the fetch that follows
\* a poll of the same name with verdict w.
AtRangeOf(n, v, w) ==
    /\ pc = "L115"
    /\ expTotal = 0 /\ passTotal = 0 /\ failTotal = 0
    /\ expMap = [ k \in {n} |-> v ]
    /\ todo = {n}
    /\ index = <<>>
    /\ fatal = ""
    /\ spc = "idle"
    /\ gathered = <<>>
    /\ families = <<>>
    /\ known = {}
    /\ polled = (w # 0)
    /\ repeated = (w = v)
    /\ registeredResultMetrics = IF w = 0 THEN <<>> ELSE <<Sanitize(n)>>
    /\ registry = IF w = 0 THEN [ fq \in FixedSeries |-> <<>> ]
                  ELSE [ fq \in FixedSeries \cup {ExpFQName(Sanitize(n))} |->
                           IF fq \in FixedSeries THEN <<0>> ELSE <<w>> ]
    /\ lastExposed = IF repeated THEN registry ELSE <<>>
    /\ lastNames = Range(registeredResultMetrics)
    /\ observed = Range(registeredResultMetrics)
    /\ TwinInit

SanitizeInit ==
    \E n \in Names, v \in Verdicts, w \in Verdicts \cup {0} :
        /\ w # 0 => ValidMetricName(ExpFQName(Sanitize(n)))
        /\ AtRangeOf(n, v, w)

SanitizeNext ==
    \/ Reconcile
    \/ Sleep

SanitizeSpec == SanitizeInit /\ [][SanitizeNext]_vars

(***************************************************************************)
(* Properties.                                                             *)
(***************************************************************************)
\* The reconciliation of the current fetch has completed
PollDone == pc = "L144"

\* No two names of the verdict map m sanitize to the same series name
NoCollision(m) ==
    \A a, b \in DOMAIN m : Sanitize(a) = Sanitize(b) => a = b

\* A scrape has collected every vector it took
ScrapeComplete == spc = "collect" /\ DOMAIN gathered = {}

\* C1: a series is registered on the poll in which its sanitized name first
\* appears (when the poll is done, every name of its map is listed and
\* registered), and no Unregister or MustRegister call is made for a name
\* that is already listed: the loop is never at one of these calls with a
\* listed name.
C1_RegisteredOnceThenReused ==
    /\ PollDone =>
         \A n \in DOMAIN expMap :
            /\ contains(registeredResultMetrics, Sanitize(n))
            /\ ExpFQName(Sanitize(n)) \in DOMAIN registry
    /\ pc \in { "L129", "L130", "L133" } =>
         ~contains(registeredResultMetrics, sanitizedExpName)

\* C2: whenever the loop is at a MustRegister call, no vector is registered
\* under the name it is about to register, and the process never stops on a
\* duplicate registration.
C2_NeverRegistersRegistered ==
    /\ pc \in { "L130", "L133" } =>
         ExpFQName(sanitizedExpName) \notin DOMAIN registry
    /\ fatal # "duplicate"

\* C2 witness: the loop is at the MustRegister of line 130 for a name whose
\* series was registered, in this same poll, for another name of the map.
C2_Witness ==
    /\ pc = "L130"
    /\ index = <<"a", "-", "b">>
    /\ <<"a", "_", "b">> \in DOMAIN expMap \ todo

\* C3: when a poll is done, the three fixed series hold that poll's total,
\* passed and failed.
C3_FixedSeriesReportPoll ==
    PollDone =>
        /\ registry[experimentsTotal] = <<expTotal>>
        /\ registry[passedExperiments] = <<passTotal>>
        /\ registry[failedExperiments] = <<failTotal>>

C5_FetchFailureChangesNothing ==
    [][ fatal' = "fetch" =>
          /\ pc \in { "L108", "exited" }
          /\ pc' = "exited"
          /\ UNCHANGED <<registry, registeredResultMetrics>> ]_vars

\* C5 witness: the process has ended on a failed fetch after a poll that
\* registered a series.
C5_Witness ==
    /\ pc = "exited"
    /\ polled
    /\ DynamicSeries(registry) # {}

\* C6: a completed scrape has read, for every name listed when it began, the
\* series of that name with a verdict.
C6_ScrapeReadsEverySeries ==
    ScrapeComplete =>
        \A n \in known :
            /\ ExpFQName(n) \in DOMAIN families
            /\ families[ExpFQName(n)] # <<>>
            /\ families[ExpFQName(n)][1] \in Verdicts

\* C7: reconciliation never stops the process, and when a poll is done every
\* name of its map has a registered series.
C7_ReconciliationNeverFails ==
    /\ pc # "panicked"
    /\ PollDone =>
         \A n \in DOMAIN expMap : ExpFQName(Sanitize(n)) \in DOMAIN registry

\* C8: when a poll is done that fetched what the previous poll fetched, the
\* registered series and the listed names are those there were after the
\* previous poll.
C8_SameMapSameSeries ==
    (PollDone /\ repeated) =>
        /\ DOMAIN registry = DOMAIN lastExposed
        /\ Range(registeredResultMetrics) = lastNames

\* C8 witness: a repeated poll of two experiments is done.
C8_Witness ==
    /\ PollDone
    /\ repeated
    /\ Cardinality(DOMAIN expMap) = 2

\* C9 as stated: when a poll is done that fetched what the previous poll
\* fetched, every series exposes what it exposed after the previous poll.
C9_RepeatedPollSameValues ==
    (PollDone /\ repeated) => registry = lastExposed

\* C9 amended: the same, for a verdict map whose names do not collide.
C9_RepeatedPollSameValuesNoCollision ==
    (PollDone /\ repeated /\ NoCollision(expMap)) => registry = lastExposed

\* C9 witness: a repeated poll of two experiments that do not collide, with
\* a total that is not zero, is done.
C9_Witness ==
    /\ PollDone
    /\ repeated
    /\ NoCollision(expMap)
    /\ Cardinality(DOMAIN expMap) = 2
    /\ expTotal > 0

\* C10: the list starts empty and every step keeps the names it holds.
C10_ListGrowsMonotonically ==
    /\ registeredResultMetrics = <<>>
    /\ [][ Range(registeredResultMetrics) \subseteq Range(registeredResultMetrics') ]_vars

\* C10 witness: the list has grown to two names.
C10_Witness == Len(registeredResultMetrics) = 2

\* Number of entries of the list l that are the name e
Occurrences(l, e) == Cardinality({ i \in 1..Len(l) : l[i] = e })

\* C11: once an iteration has written its series, the series holds the
\* verdict of that iteration whatever an earlier entry of another name wrote
\* to it, its name is listed once, and no registration was refused as a
\* duplicate; when the poll is done the series of colliding names holds the
\* verdict of one of them.
C11_CollisionLastWriteWins ==
    /\ pc \in { "L139", "L140", "L141" } =>
         /\ ExpFQName(sanitizedExpName) \in DOMAIN registry
         /\ registry[ExpFQName(sanitizedExpName)] = <<expMap[index]>>
         /\ Occurrences(registeredResultMetrics, sanitizedExpName) = 1
    /\ PollDone =>
         \A n \in DOMAIN expMap :
            /\ ExpFQName(Sanitize(n)) \in DOMAIN registry
            /\ \E m \in DOMAIN expMap :
                  /\ Sanitize(m) = Sanitize(n)
                  /\ registry[ExpFQName(Sanitize(n))] = <<expMap[m]>>
    /\ fatal # "duplicate"

\* C11 witness: the second of two colliding names of one map has written
\* the series over the other verdict of the first.
C11_Witness ==
    /\ pc = "L139"
    /\ index = <<"a", "-", "b">>
    /\ <<"a", "_", "b">> \in DOMAIN expMap \ todo
    /\ expMap[<<"a", "_", "b">>] # expMap[<<"a", "-", "b">>]
    /\ registry[ExpFQName(<<"a", "_", "b">>)] = <<expMap[<<"a", "-", "b">>]>>

\* An iteration of the range loop has computed sanitizedExpName
InIteration ==
    pc \in { "L129", "L130", "L131", "L133", "L134", "L135", "L139", "L140", "L141" }

\* C12: the sanitized name of an iteration is the source name with every
\* character that is neither a letter nor a digit replaced by the
\* underscore, so it holds letters, digits and underscores only.
C12_SanitizedIsAlphanumericOrUnderscore ==
    InIteration =>
        /\ sanitizedExpName =
              [ i \in 1..Len(index) |->
                  IF index[i] \in Letters \cup Digits THEN index[i] ELSE "_" ]
        /\ \A i \in 1..Len(sanitizedExpName) :
              sanitizedExpName[i] \in Letters \cup Digits \cup {"_"}

\* The loop is ranging over the fetched map
Reconciling == pc = "L115" \/ InIteration

\* C13: an iteration is one fetch, then the reconciliation when the fetch
\* succeeded, then one sleep, after which the next fetch starts; the only
\* step that ends the loop is a fetch that failed.
C13_LoopEndsOnlyOnFetchFailure ==
    [][ /\ pc = "L108" => pc' \in { "L115", "exited" }
        /\ pc' = "exited" => pc = "L108" /\ fatal' = "fetch"
        /\ Reconciling => Reconciling' \/ PollDone'
        /\ PollDone => pc' = "L108"
      ]_vars

\* Series the names of map m are exposed as
SeriesOf(m) == { ExpFQName(Sanitize(n)) : n \in DOMAIN m }

\* C14: no step of a reconciliation touches a dynamic series that no name of
\* the fetched map is exposed as: it stays registered, with its value.
C14_AbsentSeriesUntouched ==
    [][ Reconciling =>
          \A fq \in DynamicSeries(registry) \ SeriesOf(expMap) :
             /\ fq \in DOMAIN registry'
             /\ registry'[fq] = registry[fq]
      ]_vars

\* A poll of a name known from an earlier poll is over, and a series of
\* that earlier poll, absent from this map, is still exposed with a value
C14_Witness ==
    /\ PollDone
    /\ \E n \in DOMAIN expMap : Sanitize(n) \in lastNames
    /\ \E fq \in DynamicSeries(registry) \ SeriesOf(expMap) : Len(registry[fq]) = 1

\* The loop is between two polls: the reconciliation is over, or no fetch
\* has been made since
PollBoundary == pc \in { "L144", "L108" }

\* C16: between two polls the names of the list are the names of the
\* experiment vectors the registry holds, each under its series name.
C16_ListIsRegistryMembership ==
    PollBoundary =>
        /\ { ExpFQName(n) : n \in Range(registeredResultMetrics) } = DynamicSeries(registry)
        /\ Cardinality(Range(registeredResultMetrics)) = Cardinality(DynamicSeries(registry))

\* A poll that listed a new name next to an earlier one is over
C16_Witness ==
    /\ PollDone
    /\ Cardinality(DynamicSeries(registry)) = 2
    /\ Cardinality(lastNames) = 1

\* The name of the current iteration when line 135 has not appended it: the
\* iteration is before the append, or its registration panicked
Unappended ==
    IF pc \in { "L133", "L134", "L135", "panicked" } THEN {sanitizedExpName} ELSE {}

\* C17: in every state no name is listed twice, and the list is as long as
\* the set of sanitized names the loop has computed so far, the name of an
\* iteration that has not reached its append left aside.
C17_ListHasNoDuplicates ==
    /\ \A i, j \in 1..Len(registeredResultMetrics) :
          i # j => registeredResultMetrics[i] # registeredResultMetrics[j]
    /\ Len(registeredResultMetrics) = Cardinality(observed \ Unappended)

\* A name met again (in a later poll, or as a colliding name of the same
\* poll) was found in the list and not appended, next to another name
C17_Witness ==
    /\ pc = "L139"
    /\ contains(registeredResultMetrics, sanitizedExpName)
    /\ registeredResultMetrics[Len(registeredResultMetrics)] # sanitizedExpName
    /\ Len(registeredResultMetrics) = 2

\* C15 as stated: when both runs have made a poll of the same result, each
\* ranging over the map in its own order, they hold the same series with
\* the same values.
C15_ExposedIndependentOfOrder ==
    pc = "L144" /\ replayed => registry = other.registry

\* C15 amended: both runs hold the same series in any case, and the same
\* values when they exposed the same before the poll and no two names of
\* the map are exposed as one series.
C15_ExposedIndependentOfOrderNoCollision ==
    pc = "L144" /\ replayed =>
        /\ DOMAIN registry = DOMAIN other.registry
        /\ agreed /\ NoCollision(expMap) => registry = other.registry

\* Both runs have made a poll of two names that do not collide, and listed
\* them in different orders
C15_Witness ==
    /\ pc = "L144" /\ replayed /\ agreed
    /\ NoCollision(expMap)
    /\ Cardinality(DOMAIN expMap) = 2
    /\ Len(registeredResultMetrics) = 2
    /\ registeredResultMetrics # other.list

====
